---- MODULE Spec2Model ----
(***************************************************************************)
(* Model of protein_atlas/__init__.py: the Train and Test datasets, the    *)
(* class selector ProteinAtlas.any, Train.train_test_split and the two     *)
(* keras Sequence generators TrainGenerator and TestGenerator.             *)
(*                                                                         *)
(* Positions are 0-based as in Python; TLA+ sequences are 1-based, so the  *)
(* element at position p of a sequence s is s[p + 1].                      *)
(***************************************************************************)
EXTENDS Integers, Sequences, FiniteSets

VARIABLES
    file,       \* train.csv: sequence of rows [Id, Target]
    test_file,  \* sample_submission.csv: sequence of Ids
    train,      \* the Train object
    test,       \* the Test object
    split,      \* locals of the last Train.train_test_split call
    gens,       \* the TrainGenerator objects: gens.train, gens.val
    tgen,       \* the TestGenerator object
    ret         \* outcome of the last call

vars == <<file, test_file, train, test, split, gens, tgen, ret>>

-----------------------------------------------------------------------------
(* Bounds of the model *)

MaxRows == 3
MaxSamples == 66
MaxTest == 7
MaxBatch == 4
MaxIndex == 3
MaxSeed == 2

-----------------------------------------------------------------------------
(* Program constants *)

\* TrainGenerator.__init__: self.batch_size = 32
TrainBatchSize == 32

\* Test.get_generator(self, batch_size = 128)
DefaultTestBatch == 128

\* ProteinAtlas.classes
classes ==
    << "Nucleoplasm", "Nuclear membrane", "Nucleoli",
       "Nucleoli fibrillar center", "Nuclear speckles",
       "Nuclear bodies", "Endoplasmic reticulum", "Golgi apparatus",
       "Peroxisomes", "Endosomes", "Lysosomes",
       "Intermediate filaments", "Actin filaments",
       "Focal adhesion sites", "Microtubules", "Microtubule ends",
       "Cytokinetic bridge", "Mitotic spindle",
       "Microtubule organizing center", "Centrosome", "Lipid droplets",
       "Plasma membrane", "Cell junctions", "Mitochondria",
       "Aggresome", "Cytosol", "Cytoplasmic bodies", "Rods & rings" >>

\* ProteinAtlas.n_classes
n_classes == Len(classes)

-----------------------------------------------------------------------------
(* Python / numpy helpers *)

Elems(s) == {s[k] : k \in 1..Len(s)}

\* np.arange(a, b + 1) as a sequence
Range(a, b) == [k \in 1..(b - a + 1) |-> a + k - 1]

Min(S) == CHOOSE x \in S : \A y \in S : x <= y

RECURSIVE SortedSeq(_)
\* sorted(S) for a finite set of integers
SortedSeq(S) == IF S = {} THEN <<>> ELSE <<Min(S)>> \o SortedSeq(S \ {Min(S)})

\* a[positions]: numpy / pandas positional selection
Take(a, positions) == [k \in 1..Len(positions) |-> a[positions[k] + 1]]

RECURSIVE Concat(_)
\* np.concatenate of a list of arrays
Concat(ss) == IF ss = <<>> THEN <<>> ELSE Head(ss) \o Concat(Tail(ss))

\* int(np.ceil(n / float(b))) for b > 0
CeilDiv(n, b) == (n + b - 1) \div b

NoItem == [found |-> FALSE, pos |-> 0]

Item(p) == [found |-> TRUE, pos |-> p]

\* Mutant of ListItem: an index past the end is clamped to the last item.
ListItemClamped(len, i) ==
    IF i >= 0 /\ i < len THEN Item(i)
    ELSE IF i < 0 /\ i >= -len THEN Item(len + i)
    ELSE IF i >= len /\ len > 0 THEN Item(len - 1)
    ELSE NoItem

\* lst[i] on a Python list of length len: the position read, or NoItem
\* when the list raises IndexError.  Negative indices count from the end.
ListItem(len, i) ==
    IF i >= 0 /\ i < len THEN Item(i)
    ELSE IF i < 0 /\ i >= -len THEN Item(len + i)
    ELSE NoItem

-----------------------------------------------------------------------------
(* Input files *)

\* Target cells as read_target parses them: arrays of class numbers.
TargetChoices ==
    { <<0, 5, 27>>, <<27, 14>>, Range(0, 13), Range(14, 27) }

TrainId(p) == 101 + p
TestId(p) == 501 + p

MkFile(targets) ==
    [p1 \in 1..Len(targets) |-> [Id |-> TrainId(p1 - 1), Target |-> targets[p1]]]

ShortFiles ==
    UNION { { MkFile(t) : t \in [1..n -> TargetChoices] } : n \in 1..MaxRows }

\* A file of n two-label rows; every class occurs once n >= n_classes.
LongFile(n) ==
    MkFile([p1 \in 1..n |-> <<(p1 - 1) % n_classes, p1 % n_classes>>])

LongFiles == { LongFile(40), LongFile(MaxSamples) }

ExampleFile == MkFile(<< <<0, 5, 27>> >>)

TestFiles == { [p1 \in 1..n |-> TestId(p1 - 1)] : n \in 1..MaxTest }

-----------------------------------------------------------------------------
(* Train.__init__ *)

NoTrain == [state |-> "none", exc |-> "", index |-> <<>>, labels |-> <<>>]

\* MultiLabelBinarizer().fit: classes_ is the sorted set of labels seen.
mlb_classes(targets) ==
    SortedSeq(UNION { Elems(targets[k]) : k \in 1..Len(targets) })

\* MultiLabelBinarizer().fit_transform: one indicator column per class seen.
mlb_fit_transform(targets) ==
    LET cs == mlb_classes(targets)
    IN [k \in 1..Len(targets) |->
          [j \in 1..Len(cs) |->
              IF cs[j] \in Elems(targets[k]) THEN 1 ELSE 0]]

\* Train(): the object built from the rows of train.csv.  pd.DataFrame
\* raises ValueError when the data has not one column per column name.
TrainOf(rows) ==
    LET targets == [k \in 1..Len(rows) |-> rows[k].Target]
        index   == [k \in 1..Len(rows) |-> rows[k].Id]
        labels  == mlb_fit_transform(targets)
    IN IF Len(mlb_classes(targets)) = Len(classes)
       THEN [state |-> "ok", exc |-> "", index |-> index, labels |-> labels]
       ELSE [state |-> "error", exc |-> "ValueError",
             index |-> <<>>, labels |-> <<>>]

-----------------------------------------------------------------------------
(* ProteinAtlas.any *)

\* Class selectors, tagged with their Python type; etype is the type of
\* the first element of a list ("" for the empty list).
Sel(type, etype, ints, strs) ==
    [type |-> type, etype |-> etype, ints |-> ints, strs |-> strs]

NoSel == Sel("", "", <<>>, <<>>)
IntSel(c) == Sel("int", "", <<c>>, <<>>)
ListSel(cs) == Sel("list", "int", cs, <<>>)
StrListSel(names) == Sel("list", "str", <<>>, names)
EmptyListSel == Sel("list", "", <<>>, <<>>)
StrSel(name) == Sel("str", "", <<>>, <<name>>)
IndexSel(names) == Sel("Index", "", <<>>, names)
FloatSel == Sel("float", "", <<>>, <<>>)
NoneSel == Sel("NoneType", "", <<>>, <<>>)
TupleSel(cs) == Sel("tuple", "int", cs, <<>>)

\* The outcome of a call: exc = "" when it returned.
Ret(op, gen, idx, sel, exc, n, ids, y) ==
    [op |-> op, gen |-> gen, idx |-> idx, sel |-> sel, exc |-> exc,
     n |-> n, ids |-> ids, y |-> y]

NoRet == Ret("", "", 0, NoSel, "", 0, <<>>, <<>>)

\* labels.iloc[:, cs]: the column positions read, Python-style negative
\* positions included; IndexError when one is out of bounds.
ILocCols(ncols, cs) ==
    IF \A k \in 1..Len(cs) : cs[k] >= -ncols /\ cs[k] < ncols
    THEN [exc |-> "",
          cols |-> [k \in 1..Len(cs) |->
                       IF cs[k] < 0 THEN ncols + cs[k] ELSE cs[k]]]
    ELSE [exc |-> "IndexError", cols |-> <<>>]

\* Position of a column label in the frame's columns (self.classes).
ColumnPos(name) == CHOOSE c \in 0..(Len(classes) - 1) : classes[c + 1] = name

\* labels.loc[:, pd.Index(names)]: KeyError when a name is no column.
LocCols(names) ==
    IF \A k \in 1..Len(names) : names[k] \in Elems(classes)
    THEN [exc |-> "", cols |-> [k \in 1..Len(names) |-> ColumnPos(names[k])]]
    ELSE [exc |-> "KeyError", cols |-> <<>>]

\* Mutant of AnyMask: a row is kept when all selected columns are 1.
AllMask(labels, cols) ==
    [k \in 1..Len(labels) |-> \A j \in 1..Len(cols) : labels[k][cols[j] + 1] = 1]

\* pd.DataFrame(selected == 1).any(axis = 1)
AnyMask(labels, cols) ==
    [k \in 1..Len(labels) |-> \E j \in 1..Len(cols) : labels[k][cols[j] + 1] = 1]

\* labels.loc[mask]: the rows kept, in table order, named by their Id.
LocRows(index, mask) ==
    Take(index, SelectSeq(Range(0, Len(index) - 1), LAMBDA p : mask[p + 1]))

\* ProteinAtlas.any(class_) on a constructed Train.
AnyOutcome(tr, sel) ==
    LET ncols == Len(classes)
        done(c) == IF c.exc = ""
                   THEN Ret("any", "", 0, sel, "", 0,
                            LocRows(tr.index, AnyMask(tr.labels, c.cols)), <<>>)
                   ELSE Ret("any", "", 0, sel, c.exc, 0, <<>>, <<>>)
    IN IF sel.type = "Index" THEN done(LocCols(sel.strs))
       ELSE IF sel.type = "int" THEN done(ILocCols(ncols, sel.ints))
       ELSE IF sel.type = "list" /\ sel.etype = ""
            THEN Ret("any", "", 0, sel, "IndexError", 0, <<>>, <<>>)
       ELSE IF sel.type = "list" /\ sel.etype = "int"
            THEN done(ILocCols(ncols, sel.ints))
       ELSE IF sel.type = "str" THEN done(LocCols(sel.strs))
       ELSE Ret("any", "", 0, sel, "UnboundLocalError", 0, <<>>, <<>>)

PairCols == {0, 5, 14, 27}

\* The selectors the model passes to any().
Selectors ==
    { IntSel(c) : c \in (0 - 1)..n_classes }
    \cup { ListSel(<<c>>) : c \in 0..(n_classes - 1) }
    \cup { ListSel(<<a, b>>) : a \in PairCols, b \in PairCols }
    \cup { StrSel(classes[c + 1]) : c \in 0..(n_classes - 1) }
    \cup { StrSel("Nucleus"), IndexSel(<<"Nucleoplasm">>),
           IndexSel(<<"Nucleoli", "Cytosol">>),
           StrListSel(<<"Nucleoplasm">>), EmptyListSel,
           FloatSel, NoneSel, TupleSel(<<0, 5>>) }

-----------------------------------------------------------------------------
(* MultilabelStratifiedKFold (iterstrat), as the code uses it *)

\* One fold assignment of positions 0..n-1 to k folds: the test set of
\* fold f, ascending.  r is the draw of the stratifier's tie-breaking.
Folds(n, k, r) ==
    [f \in 1..k |-> SelectSeq(Range(0, n - 1), LAMBDA p : (p + r) % k = f - 1)]

\* MultilabelStratifiedKFold(n_splits = k).split(X, y) for n samples: the
\* test sets of the folds, which partition 0..n-1.  The constructor raises
\* ValueError when k <= 1 and split raises it when k > n: no outcome.
MSKFSplits(n, k) ==
    IF k <= 1 \/ k > n THEN {} ELSE { Folds(n, k, r) : r \in 0..(MaxSeed - 1) }

-----------------------------------------------------------------------------
(* TrainGenerator *)

Gen(state, exc, arg_batch_size, batch_size, train_set, n_splits, batch_sets) ==
    [state |-> state, exc |-> exc, arg_batch_size |-> arg_batch_size,
     batch_size |-> batch_size, train_set |-> train_set,
     n_splits |-> n_splits, batch_sets |-> batch_sets]

NoGen == Gen("none", "", 0, 0, <<>>, 0, <<>>)

\* TrainGenerator(train, train_set, batch_size): the objects the
\* constructor can leave.  arg_batch_size records the argument only.
TrainGeneratorInit(train_set, batch_size) ==
    LET bs == TrainBatchSize
        n_splits == CeilDiv(Len(train_set), bs)
        outcomes == MSKFSplits(Len(train_set), n_splits)
    IN IF outcomes = {}
       THEN { Gen("error", "ValueError", batch_size, bs, train_set, n_splits, <<>>) }
       ELSE { Gen("ok", "", batch_size, bs, train_set, n_splits, folds) :
                folds \in outcomes }

\* TrainGenerator.__len__
TrainLen(g) == Len(g.batch_sets)

\* TrainGenerator.__getitem__(index): (x_batch, y_batch); the images are
\* named by the ids they are loaded for.
TrainGetItem(tr, g, name, i) ==
    LET it == ListItem(Len(g.batch_sets), i)
    IN IF it.found
       THEN LET batch_set == g.batch_sets[it.pos + 1]
            IN Ret("get", name, i, NoSel, "", 0,
                   Take(tr.index, batch_set), Take(tr.labels, batch_set))
       ELSE Ret("get", name, i, NoSel, "IndexError", 0, <<>>, <<>>)

-----------------------------------------------------------------------------
(* Test and TestGenerator *)

NoTest == [state |-> "none", index |-> <<>>]

TGen(state, exc, batch_size, batch_sets) ==
    [state |-> state, exc |-> exc, batch_size |-> batch_size,
     batch_sets |-> batch_sets]

NoTGen == TGen("none", "", 0, <<>>)

\* TestGenerator.__len__
TestLen(te, batch_size) == CeilDiv(Len(te.index), batch_size)

\* Mutant of ArraySplit: chunks of ceil(n / k) positions, the last
\* chunk taking what is left.
ArraySplitChunks(n, k) ==
    LET c == CeilDiv(n, k)
    IN [f \in 1..k |->
          IF (f - 1) * c >= n THEN <<>>
          ELSE Range((f - 1) * c, IF f * c < n THEN f * c - 1 ELSE n - 1)]

\* np.array_split(np.arange(n), k) for k > 0: the first n % k sections
\* hold n // k + 1 positions, the others n // k.
ArraySplit(n, k) ==
    LET q == n \div k
        m == n % k
        start(f) == (f - 1) * q + (IF f - 1 < m THEN f - 1 ELSE m)
    IN [f \in 1..k |-> Range(start(f), start(f + 1) - 1)]

\* TestGenerator(test, batch_size); np.array_split raises ValueError for
\* zero sections.
TestGeneratorInit(te, batch_size) ==
    LET k == TestLen(te, batch_size)
    IN IF k <= 0 THEN TGen("error", "ValueError", batch_size, <<>>)
       ELSE TGen("ok", "", batch_size, ArraySplit(Len(te.index), k))

\* TestGenerator.__getitem__(index): x_batch
TestGetItem(te, g, i) ==
    LET it == ListItem(Len(g.batch_sets), i)
    IN IF it.found
       THEN Ret("get", "test", i, NoSel, "", 0,
                Take(te.index, g.batch_sets[it.pos + 1]), <<>>)
       ELSE Ret("get", "test", i, NoSel, "IndexError", 0, <<>>, <<>>)

-----------------------------------------------------------------------------
(* Inputs of the calls *)

\* batch_size arguments passed to TrainGenerator and train_test_split
TrainBatchArgs == {8, TrainBatchSize}

\* batch_size arguments passed to Test.get_generator
TestBatchArgs == 1..MaxBatch \cup {DefaultTestBatch}

\* train_portion arguments, as <<numerator, denominator>>
Portions == { <<1, 4>>, <<1, 2>>, <<3, 4>> }

\* Index subsets passed to TrainGenerator directly, for a table of n rows
DirectTrainSets(n) ==
    { Range(lo, lo + len - 1) :
        <<lo, len>> \in { x \in (0..n) \X {4, TrainBatchSize + 1, n} :
                            x[2] <= n /\ x[1] \in {0, n - x[2]} } }

Indices == (0 - MaxIndex)..MaxIndex

GenNames == {"train", "val"}

NoSplit == [state |-> "none", exc |-> "", batch_size |-> 0, n_splits |-> 0,
            train_set |-> <<>>, val_set |-> <<>>]

-----------------------------------------------------------------------------
(* State machine *)

Blank ==
    /\ train = NoTrain
    /\ test = NoTest
    /\ split = NoSplit
    /\ gens = [train |-> NoGen, val |-> NoGen]
    /\ tgen = NoTGen
    /\ ret = NoRet

\* The files on disk before the generators are used: a train.csv whose
\* table can be built, or the spec's one-row example beside a test index.
Init ==
    /\ \/ file \in LongFiles /\ test_file = <<>>
       \/ file = ExampleFile /\ test_file \in TestFiles
    /\ Blank

\* The files on disk before the label table is built and queried.
InitAny ==
    /\ file \in ShortFiles \cup LongFiles
    /\ test_file = <<>>
    /\ Blank

\* Train()
TrainInit ==
    /\ train.state = "none"
    /\ train' = TrainOf(file)
    /\ ret' = Ret("Train", "", 0, NoSel, train'.exc, 0, <<>>, <<>>)
    /\ UNCHANGED <<file, test_file, test, split, gens, tgen>>

\* train.any(sel)
Any(sel) ==
    /\ train.state = "ok"
    /\ ret' = AnyOutcome(train, sel)
    /\ UNCHANGED <<file, test_file, train, test, split, gens, tgen>>

\* TrainGenerator(train, train_set, batch_size), called directly
NewTrainGenerator(train_set, batch_size) ==
    /\ train.state = "ok"
    /\ split.state = "none"
    /\ gens.train.state = "none"
    /\ \E g \in TrainGeneratorInit(train_set, batch_size) :
          /\ gens' = [gens EXCEPT !.train = g]
          /\ ret' = Ret("TrainGenerator", "train", 0, NoSel, g.exc, 0, <<>>, <<>>)
    /\ UNCHANGED <<file, test_file, train, test, split, tgen>>

\* train.train_test_split(train_portion, batch_size), train_portion = p[1]/p[2]
TrainTestSplit(p, batch_size) ==
    /\ train.state = "ok"
    /\ split.state = "none"
    /\ gens.train.state = "none"
    /\ LET n_splits == p[2] \div (p[2] - p[1])
           n == Len(train.labels)
           outcomes == MSKFSplits(n, n_splits)
       IN IF outcomes = {}
          THEN /\ split' = [NoSplit EXCEPT !.state = "error", !.exc = "ValueError",
                                           !.batch_size = batch_size,
                                           !.n_splits = n_splits]
               /\ ret' = Ret("train_test_split", "", 0, NoSel, "ValueError",
                             0, <<>>, <<>>)
               /\ UNCHANGED gens
          ELSE \E folds \in outcomes :
                 LET val_set == folds[1]
                     train_set == SortedSeq((0..(n - 1)) \ Elems(val_set))
                 IN \E g1 \in TrainGeneratorInit(train_set, batch_size),
                       g2 \in TrainGeneratorInit(train_set, batch_size) :
                      /\ split' = [state |-> IF g1.state = "ok" /\ g2.state = "ok"
                                             THEN "ok" ELSE "error",
                                   exc |-> IF g1.state = "ok" THEN g2.exc ELSE g1.exc,
                                   batch_size |-> batch_size,
                                   n_splits |-> n_splits,
                                   train_set |-> train_set,
                                   val_set |-> val_set]
                      /\ gens' = [train |-> g1,
                                  val |-> IF g1.state = "ok" THEN g2 ELSE NoGen]
                      /\ ret' = Ret("train_test_split", "", 0, NoSel, split'.exc,
                                    0, <<>>, <<>>)
    /\ UNCHANGED <<file, test_file, train, test, tgen>>

\* len(gens[name])
TrainGenLen(name) ==
    /\ gens[name].state = "ok"
    /\ ret' = Ret("len", name, 0, NoSel, "", TrainLen(gens[name]), <<>>, <<>>)
    /\ UNCHANGED <<file, test_file, train, test, split, gens, tgen>>

\* Mutant of TrainGenGet: the folds are rotated after each read, as a
\* per-epoch reshuffle would.
TrainGenGetReshuffle(name, i) ==
    /\ gens[name].state = "ok"
    /\ ret' = TrainGetItem(train, gens[name], name, i)
    /\ gens' = [gens EXCEPT ![name].batch_sets =
                    Tail(@) \o <<Head(@)>>]
    /\ UNCHANGED <<file, test_file, train, test, split, tgen>>

\* gens[name][i]
TrainGenGet(name, i) ==
    /\ gens[name].state = "ok"
    /\ ret' = TrainGetItem(train, gens[name], name, i)
    /\ UNCHANGED <<file, test_file, train, test, split, gens, tgen>>

\* Test()
TestInit ==
    /\ test.state = "none"
    /\ test' = [state |-> "ok", index |-> test_file]
    /\ ret' = Ret("Test", "", 0, NoSel, "", 0, <<>>, <<>>)
    /\ UNCHANGED <<file, test_file, train, split, gens, tgen>>

\* test.get_generator(batch_size)
GetGenerator(batch_size) ==
    /\ test.state = "ok"
    /\ tgen.state = "none"
    /\ tgen' = TestGeneratorInit(test, batch_size)
    /\ ret' = Ret("get_generator", "test", 0, NoSel, tgen'.exc, 0, <<>>, <<>>)
    /\ UNCHANGED <<file, test_file, train, test, split, gens>>

\* len(tgen)
TestGenLen ==
    /\ tgen.state = "ok"
    /\ ret' = Ret("len", "test", 0, NoSel, "", TestLen(test, tgen.batch_size),
                  <<>>, <<>>)
    /\ UNCHANGED <<file, test_file, train, test, split, gens, tgen>>

\* tgen[i]
TestGenGet(i) ==
    /\ tgen.state = "ok"
    /\ ret' = TestGetItem(test, tgen, i)
    /\ UNCHANGED <<file, test_file, train, test, split, gens, tgen>>

\* The datasets and their batch generators
Next ==
    \/ TrainInit
    \/ \E ts \in DirectTrainSets(Len(train.labels)), b \in TrainBatchArgs :
          NewTrainGenerator(ts, b)
    \/ \E p \in Portions, b \in TrainBatchArgs : TrainTestSplit(p, b)
    \/ \E name \in GenNames : TrainGenLen(name)
    \/ \E name \in GenNames, i \in Indices : TrainGenGet(name, i)
    \/ TestInit
    \/ \E b \in TestBatchArgs : GetGenerator(b)
    \/ TestGenLen
    \/ \E i \in Indices : TestGenGet(i)

Spec == Init /\ [][Next]_vars

\* The label table and its class selector
NextAny ==
    \/ TrainInit
    \/ \E sel \in Selectors : Any(sel)

SpecAny == InitAny /\ [][NextAny]_vars

-----------------------------------------------------------------------------
(* Observations the claims are stated on *)

\* Ids of the samples at the positions of an index array of the label table
IdsAt(positions) == { train.index[positions[k] + 1] : k \in 1..Len(positions) }

\* Ids served by batch i of a constructed TrainGenerator
BatchIds(g, i) == Elems(TrainGetItem(train, g, "", i).ids)

\* Ids served by get(0) .. get(length() - 1)
Served(g) == UNION { BatchIds(g, i) : i \in 0..(TrainLen(g) - 1) }

\* length() of the generator a call was made on
LengthOf(name) ==
    IF name = "test" THEN TestLen(test, tgen.batch_size) ELSE TrainLen(gens[name])

\* What get(i) of the generator called name returns in the current state
GetOf(name, i) ==
    IF name = "test" THEN TestGetItem(test, tgen, i)
    ELSE TrainGetItem(train, gens[name], name, i)

\* Ids of the rows of the label table with a 1 in one of the columns cols,
\* in table order
RowsWithAny(cols) ==
    Take(train.index,
         SelectSeq(Range(0, Len(train.labels) - 1),
                   LAMBDA p : \E c \in cols : train.labels[p + 1][c + 1] = 1))

-----------------------------------------------------------------------------
(* Claims *)

\* C1: the batches of a TrainGenerator are pairwise disjoint and the
\* samples served by get(0) .. get(length()-1) are exactly the samples at
\* the positions in train_set.  (Stated as claimed; the code serves the
\* first len(train_set) rows of the table instead.)
C1_ServesTrainSet ==
    \A name \in GenNames :
        gens[name].state = "ok" =>
            /\ \A i, j \in 0..(TrainLen(gens[name]) - 1) :
                  i # j => BatchIds(gens[name], i) \cap BatchIds(gens[name], j) = {}
            /\ Served(gens[name]) = IdsAt(gens[name].train_set)

\* C2: a TrainGenerator over n selected samples built with batch_size B
\* has length() = ceil(n / B), for every B.  (Stated as claimed; the code
\* uses 32 whatever B is.)
C2_LengthFollowsBatchSize ==
    \A name \in GenNames :
        gens[name].state = "ok" =>
            TrainLen(gens[name]) =
                CeilDiv(Len(gens[name].train_set), gens[name].arg_batch_size)

\* C3: building a TrainGenerator over fewer than 2 * batch_size samples
\* succeeds with the number of splits floored at 2 and length() = 2.
\* (Stated as claimed; the code has no floor and the k-fold raises.)
C3_DegenerateSizeSucceeds ==
    \A name \in GenNames :
        (/\ gens[name].state # "none"
         /\ Len(gens[name].train_set) < 2 * gens[name].arg_batch_size)
        => /\ gens[name].state = "ok"
           /\ gens[name].n_splits = 2
           /\ TrainLen(gens[name]) = 2

\* C4 as claimed: get(i) with any i outside [0, length()), negative i
\* included, raises IndexError and returns no batch.
C4_OutsideRangeRaises ==
    (ret.op = "get" /\ (ret.idx < 0 \/ ret.idx >= LengthOf(ret.gen)))
    => (ret.exc = "IndexError" /\ ret.ids = <<>> /\ ret.y = <<>>)

\* C4 as amended: on both generators get(i) raises IndexError and returns
\* no batch exactly when i >= length() or i < -length(); for
\* -length() <= i < 0 it returns batch length() + i.
C4_PythonIndexing ==
    ret.op = "get" =>
        LET len == LengthOf(ret.gen)
        IN /\ (ret.exc = "IndexError") <=> (ret.idx >= len \/ ret.idx < -len)
           /\ ret.exc \in {"", "IndexError"}
           /\ ret.exc = "IndexError" => (ret.ids = <<>> /\ ret.y = <<>>)
           /\ (ret.idx < 0 /\ ret.idx >= -len) =>
                  (/\ ret.ids = GetOf(ret.gen, len + ret.idx).ids
                   /\ ret.y = GetOf(ret.gen, len + ret.idx).y
                   /\ ret.ids # <<>>)

\* C4 witness: a get past the end of a TestGenerator of two or more
\* batches has raised.
C4_Witness ==
    /\ ret.op = "get" /\ ret.gen = "test"
    /\ LengthOf("test") >= 2
    /\ ret.idx >= LengthOf("test")
    /\ ret.exc = "IndexError"

\* C5: the partition is fixed at construction.  Over every step, for every
\* constructed generator, length() and what get(i) returns for each i are
\* unchanged, and a get(i) made in the step returns what get(i) returned
\* in the state before it; so every get(i) equals the first one.
C5_PartitionFixed ==
    [][ /\ \A name \in GenNames :
             gens[name].state = "ok" =>
                /\ gens'[name].state = "ok"
                /\ TrainLen(gens'[name]) = TrainLen(gens[name])
                /\ \A i \in Indices :
                      TrainGetItem(train', gens'[name], name, i)
                          = TrainGetItem(train, gens[name], name, i)
        /\ tgen.state = "ok" =>
                /\ tgen'.state = "ok"
                /\ TestLen(test', tgen'.batch_size) = TestLen(test, tgen.batch_size)
                /\ \A i \in Indices :
                      TestGetItem(test', tgen', i) = TestGetItem(test, tgen, i)
        /\ (ret' # ret /\ ret'.op = "get") =>
                (ret'.ids = GetOf(ret'.gen, ret'.idx).ids
                 /\ ret'.y = GetOf(ret'.gen, ret'.idx).y)
        /\ (ret' # ret /\ ret'.op = "len") => ret'.n = LengthOf(ret'.gen)
      ]_vars

\* C5 witness: the validation generator has served a batch other than its
\* first, with the label rows of its samples.
C5_Witness ==
    /\ ret.op = "get" /\ ret.gen = "val" /\ ret.idx = 1 /\ ret.exc = ""
    /\ Len(ret.ids) > 1 /\ Len(ret.y) = Len(ret.ids)

\* C6: any(sel) raises TypeError at once for every selector that is not an
\* int, a list of ints or a class-name string.  (Stated as claimed; the
\* code accepts a pd.Index and otherwise fails on an unbound local.)
C6_OtherSelectorsRaiseTypeError ==
    (/\ ret.op = "any"
     /\ ~ \/ ret.sel.type = "int"
          \/ ret.sel.type = "list" /\ ret.sel.etype = "int"
          \/ ret.sel.type = "str")
    => (ret.exc = "TypeError" /\ ret.ids = <<>>)

\* C7: for a class index c in [0, 28), any(c), any([c]) and any(name of
\* class c) return exactly the rows whose column c is 1; for a list of
\* indices the result is the rows with a 1 in at least one selected
\* column, in table order.
C7_AnySelectsRows ==
    (ret.op = "any" /\ train.state = "ok") =>
        /\ \A c \in 0..(n_classes - 1) :
              ret.sel \in {IntSel(c), ListSel(<<c>>), StrSel(classes[c + 1])}
                  => (ret.exc = "" /\ ret.ids = RowsWithAny({c}))
        /\ (ret.sel.type = "list" /\ ret.sel.etype = "int"
             /\ Elems(ret.sel.ints) \subseteq 0..(n_classes - 1))
              => (ret.exc = "" /\ ret.ids = RowsWithAny(Elems(ret.sel.ints)))

\* C7 witness: a list of two classes has selected rows that neither class
\* selects alone.
C7_Witness ==
    /\ ret.op = "any" /\ ret.exc = ""
    /\ ret.sel = ListSel(<<5, 14>>)
    /\ Len(ret.ids) > Len(RowsWithAny({5}))
    /\ Len(ret.ids) > Len(RowsWithAny({14}))

\* C8: whatever classes occur in the train file, Train() yields a label
\* matrix of exactly 28 columns with cell (s, c) = 1 iff c is in the target
\* set of s.  (Stated as claimed; the code fits the binarizer on the file,
\* so a file that lacks a class gets fewer columns and Train() raises.)
C8_LabelMatrixOverVocabulary ==
    train.state # "none" =>
        /\ train.state = "ok"
        /\ Len(train.labels) = Len(file)
        /\ \A s \in 1..Len(file) :
              /\ Len(train.labels[s]) = n_classes
              /\ \A c \in 0..(n_classes - 1) :
                    (train.labels[s][c + 1] = 1) <=> (c \in Elems(file[s].Target))

\* C9: train_test_split builds both generators from the same train_set of
\* the first fold, and no sample of the held-out val_set is served by the
\* validation generator.  (Stated as claimed; by the defect of C1 the
\* generator serves the first rows of the table, held-out ones included.)
C9_ValSetNotServed ==
    split.state = "ok" =>
        /\ gens.train.train_set = split.train_set
        /\ gens.val.train_set = split.train_set
        /\ Elems(split.train_set) \cap Elems(split.val_set) = {}
        /\ Served(gens.val) \cap IdsAt(split.val_set) = {}

\* C10: the batch groups of a TestGenerator over n >= 1 ids partition
\* 0..n-1 into ceil(n / B) non-empty contiguous ascending groups of at most
\* B positions, sizes differing by at most 1; len(batch_sets) = length();
\* get(0) .. get(length()-1) concatenated are the test ids in index order.
C10_TestBatchesPartition ==
    tgen.state = "ok" =>
        LET n == Len(test.index)
            bs == tgen.batch_sets
            k == Len(bs)
        IN /\ n >= 1
           /\ k = CeilDiv(n, tgen.batch_size)
           /\ k = TestLen(test, tgen.batch_size)
           /\ Concat(bs) = Range(0, n - 1)
           /\ \A f \in 1..k : Len(bs[f]) >= 1 /\ Len(bs[f]) <= tgen.batch_size
           /\ \A f, h \in 1..k : Len(bs[f]) - Len(bs[h]) <= 1
           /\ Concat([f \in 1..k |-> TestGetItem(test, tgen, f - 1).ids]) = test.index

\* C10 witness: a TestGenerator of three or more batches of unequal sizes.
C10_Witness ==
    /\ tgen.state = "ok"
    /\ Len(tgen.batch_sets) >= 3
    /\ \E f, h \in 1..Len(tgen.batch_sets) :
          Len(tgen.batch_sets[f]) # Len(tgen.batch_sets[h])

====
